---- MODULE Spec2Model ----
(***************************************************************************)
(* PartisanPlot (src/partisan_plot.py): the election table with its three  *)
(* configuration series, drop_columns, and draw with the per-year          *)
(* computation of the seats-votes step curve and the actual-result marker. *)
(*                                                                         *)
(* Python floats are modelled as binary floating point with round to       *)
(* nearest, ties to even, at a scaled-down precision of MantissaBits bits  *)
(* (the same rounding rule at 53 bits is IEEE binary64).  A float is the   *)
(* integer n standing for n / Unit.                                        *)
(***************************************************************************)
EXTENDS Integers, Sequences, FiniteSets, TLC

\* ------------------------------------------------------------------ bounds
MantissaBits == 5       \* significant bits of a float of the model
FracBits == 10          \* a float is a multiple of 2^-FracBits
MaxRows == 4            \* rows of the results table under SpecDraw
MaxSessionRows == 3     \* rows of the results table under Spec
MaxYears == 2           \* length of the years series
MaxDropped == 2         \* column names in one dropped-columns file

\* ------------------------------------------------------- float arithmetic
Unit == 2 ^ FracBits
Half == Unit \div 2

RECURSIVE Exponent(_, _)
Exponent(q, s) ==
    IF q \div (2 ^ s) < 2 ^ MantissaBits THEN s ELSE Exponent(q, s + 1)

RoundHalfEven(a, b) ==
    LET f == a \div b
        r == a % b
    IN  IF 2 * r < b THEN f
        ELSE IF 2 * r > b THEN f + 1
        ELSE IF f % 2 = 0 THEN f ELSE f + 1

RoundAbs(num, den) ==
    LET s == Exponent(num \div den, 0)
    IN  RoundHalfEven(num, den * (2 ^ s)) * (2 ^ s)

\* the float nearest to num / (den * Unit)
Float(num, den) ==
    IF num >= 0 THEN RoundAbs(num, den) ELSE 0 - RoundAbs(0 - num, den)

\* int / int, float + float, float - float
TrueDiv(a, b) == Float(a * Unit, b)
FAdd(x, y) == Float(x + y, 1)
FSub(x, y) == Float(x - y, 1)

\* mutant: the margins are not clipped
ClipNone(x) == x

\* Series.clip(-1, 1) on one value
Clip(x) == IF x < 0 - Unit THEN 0 - Unit ELSE IF x > Unit THEN Unit ELSE x

\* PartisanPlot.sign (num is an int): "+" or "-" and the digits
Abs(n) == IF n < 0 THEN 0 - n ELSE n
sign(num) == IF num < 0 THEN <<"-", Abs(num)>> ELSE <<"+", num>>

\* round(partisan_bias * 100): a float product, then round-half-even to an int
PyRound(x) ==
    IF x >= 0 THEN RoundHalfEven(x, Unit) ELSE 0 - RoundHalfEven(0 - x, Unit)
BiasPercent(partisan_bias) == PyRound(Float(partisan_bias * 100, 1))

\* -------------------------------------------------------------- the data
\* the columns draw reads, and two it does not
TableColumns ==
    {"year", "state_po", "district", "party", "candidatevotes", "totalvotes",
     "office", "candidate"}

Row(y, s, d, p, c, t) ==
    [year |-> y, state_po |-> s, district |-> d, party |-> p,
     candidatevotes |-> c, totalvotes |-> t]

\* candidate rows of the results file; a table is a selection of them, in
\* file order
RowPool ==
    << Row(2016, "WY", 0, "republican", 7, 10),
       Row(2016, "WY", 1, "democrat", 6, 10),
       Row(2016, "CA", 3, "democrat", 5, 10),
       Row(2016, "CA", 1, "libertarian", 1, 10),
       Row(2016, "CA", 1, "republican", 1, 10),
       Row(2016, "CA", 1, "republican", 2, 10),
       Row(2016, "CA", 1, "democrat", 3, 10),
       Row(2016, "CA", 2, "democrat", 6, 10),
       Row(2016, "CA", 2, "republican", 1, 1),
       Row(2018, "CA", 1, "democrat", 5, 10),
       Row(2018, "CA", 1, "republican", 5, 10),
       Row(2018, "CA", 2, "republican", 6, 10),
       Row(2018, "CA", 2, "democrat", 0, 10),
       Row(2018, "WY", 1, "republican", 2, 0) >>

YearPool == <<2016, 2018, 2020, 2022>>
ColorPool == <<"b", "r", "g", "m">>
DistrictFile == [s \in {"CA", "WY"} |-> IF s = "CA" THEN 2 ELSE 1]

\* the states draw is called with: TX is not in the district-count file
DrawStates == {"CA", "WY", "TX"}

RECURSIVE Select(_, _, _)
Select(pool, picked, i) ==
    IF i > Len(pool) THEN <<>>
    ELSE (IF i \in picked THEN <<pool[i]>> ELSE <<>>) \o Select(pool, picked, i + 1)

Tables(maxRows) ==
    { Select(RowPool, picked, 1) :
        picked \in { P \in SUBSET (1 .. Len(RowPool)) : Cardinality(P) <= maxRows } }

YearLists == { SubSeq(YearPool, 1, n) : n \in 1 .. MaxYears }

\* --------------------------------------------------------------- options
\* a parameter of draw is None or a value
None == [none |-> TRUE]
Val(v) == [v |-> v]

\* PartisanPlot.default_draw_values; 0.2 and 0.6 are written in tenths
PristineDefaults == <<Val("k"), Val(200), Val("-"), Val(<<2, 10>>), Val(<<6, 10>>), Val(11)>>

\* a value other than the default, per parameter
Explicit == <<Val("gray"), Val(50), Val("--"), Val(<<5, 10>>), Val(<<10, 10>>), Val(5)>>

NoOptions == [i \in 1 .. 6 |-> None]
OptionLists ==
    { [i \in 1 .. 6 |-> IF i \in given THEN Explicit[i] ELSE None] :
        given \in {{}, {2}, {1, 3, 4, 5, 6}, 1 .. 6} }

FigSize == <<12, 8>>

VARIABLES
    house_data,           \* self.house_data: the rows, in file order
    columns,              \* the columns self.house_data still has
    num_districts,        \* self.num_districts: state -> district count
    years,                \* self.years
    colors,               \* self.colors: year -> color
    default_draw_values,  \* PartisanPlot.default_draw_values
    last                  \* the last call: its arguments, outcome and output

vars ==
    <<house_data, columns, num_districts, years, colors, default_draw_values,
      last>>

\* ------------------------------------------------ draw: one year's pass
\* what one pass of the year loop leaves behind; stage says how far it got:
\* "rows" (failed on lines 133-154), "margin" (failed on line 156), "seats"
\* (lines 156-163 done, failed on line 165), "drawn" (the pass completed)
YearPass(year, stage, err, line) ==
    [year |-> year, stage |-> stage, err |-> err, line |-> line,
     vote_share |-> <<>>, dem_votes |-> 0, rep_votes |-> 0, actual_margin |-> 0,
     extrapolated_margin |-> <<>>, dem_seats |-> 0, percent_seats_won |-> <<>>,
     seats |-> 0, partisan_bias |-> 0]

\* lines 133-137: the rows of the year and state with a major party
MajorPartyCandidates(year, state) ==
    SelectSeq(house_data,
              LAMBDA r : /\ r.year = year
                         /\ r.state_po = state
                         /\ (r.party = "republican" \/ r.party = "democrat"))

\* lines 138-141: D rows of zeros, indexed 1..D
VoteShareZeros(D) == [d \in 1 .. D |-> [democrat |-> 0, republican |-> 0]]

\* lines 147-154 for one row: the accumulators after it, or the error
RowStep(acc, candidate) ==
    IF "district" \notin columns
    THEN [acc EXCEPT !.err = "KeyError", !.line = 148]
    ELSE IF candidate.district \notin DOMAIN acc.vote_share
    THEN [acc EXCEPT !.err = "KeyError", !.line = 147]
    ELSE IF "candidatevotes" \notin columns \/ "totalvotes" \notin columns
    THEN [acc EXCEPT !.err = "KeyError", !.line = 149]
    ELSE IF candidate.totalvotes = 0
    THEN [acc EXCEPT !.err = "ZeroDivisionError", !.line = 149]
    ELSE LET share == TrueDiv(candidate.candidatevotes, candidate.totalvotes)
             d == candidate.district
             p == candidate.party
         IN  [acc EXCEPT
                !.vote_share[d][p] = FAdd(@, share),
                !.dem_votes = IF p = "democrat" THEN @ + candidate.candidatevotes ELSE @,
                !.rep_votes = IF p = "democrat" THEN @ ELSE @ + candidate.candidatevotes]

\* lines 146-154: the rows in order, stopping at the first error
RECURSIVE RowLoop(_, _, _)
RowLoop(acc, rows, i) ==
    IF i > Len(rows) \/ acc.err # "none" THEN acc
    ELSE RowLoop(RowStep(acc, rows[i]), rows, i + 1)

\* lines 163: the values in ascending order
RECURSIVE Insert(_, _)
Insert(s, x) ==
    IF s = <<>> THEN <<x>>
    ELSE IF x < Head(s) THEN <<x>> \o s
    ELSE <<Head(s)>> \o Insert(Tail(s), x)

RECURSIVE SortValues(_)
SortValues(s) == IF s = <<>> THEN <<>> ELSE Insert(SortValues(Tail(s)), Head(s))

\* line 124: the two boundary values appended to the margins
Extrema == <<0 - Unit, Unit>>

\* lines 158-163
ExtrapolatedMargin(vote_share, actual_margin, D) ==
    LET margin == [d \in 1 .. D |->
                     FAdd(FSub(vote_share[d].republican, vote_share[d].democrat),
                          actual_margin)]
        appended == margin \o Extrema
    IN  SortValues([i \in 1 .. Len(appended) |-> Clip(appended[i])])

\* mutant: a tie is not a Democratic win
DemSeatsStrict(vote_share) ==
    Cardinality({d \in DOMAIN vote_share :
                   vote_share[d].democrat > vote_share[d].republican})

\* lines 165-167: the districts counted True
DemSeats(vote_share) ==
    Cardinality({d \in DOMAIN vote_share :
                   vote_share[d].democrat >= vote_share[d].republican})

\* mutant: the final seat count is not repeated
SeatsWonShort(D) == [i \in 1 .. D + 1 |-> i - 1]

\* lines 169-173
SeatsWon(D) == [i \in 1 .. D + 2 |-> IF i <= D + 1 THEN i - 1 ELSE D]
PercentSeatsWon(D) ==
    LET seats_won == SeatsWon(D)
    IN  [i \in 1 .. Len(seats_won) |-> TrueDiv(seats_won[i], D)]

\* mutant: the scan stops at the first margin > 0
RECURSIVE BiasScanStrict(_, _)
BiasScanStrict(margins, seats) ==
    IF margins[seats + 1] > 0 \/ seats + 1 = Len(margins) THEN seats
    ELSE BiasScanStrict(margins, seats + 1)

\* lines 175-180: the value of `seats` when the loop ends (the first margin
\* >= 0, or the last entry)
RECURSIVE BiasScan(_, _)
BiasScan(margins, seats) ==
    IF margins[seats + 1] >= 0 \/ seats + 1 = Len(margins) THEN seats
    ELSE BiasScan(margins, seats + 1)

PartisanBias(seats, D) == FSub(TrueDiv(seats - 1, D), Half)

\* mutant: a zero denominator gives a margin of 0 instead of an error
ActualMarginGuarded(dem_votes, rep_votes) ==
    IF dem_votes + rep_votes = 0
    THEN [err |-> "none", value |-> 0]
    ELSE [err |-> "none", value |-> TrueDiv(dem_votes - rep_votes, dem_votes + rep_votes)]

\* lines 156-157: int / int raises ZeroDivisionError on a zero denominator
ActualMargin(dem_votes, rep_votes) ==
    IF dem_votes + rep_votes = 0
    THEN [err |-> "ZeroDivisionError", value |-> 0]
    ELSE [err |-> "none", value |-> TrueDiv(dem_votes - rep_votes, dem_votes + rep_votes)]

\* lines 133-180 for one year
YearComputation(year, state) ==
    IF {"year", "state_po", "party"} \ columns # {}
    THEN YearPass(year, "rows", "KeyError", 134)
    ELSE IF state \notin DOMAIN num_districts
    THEN YearPass(year, "rows", "KeyError", 139)
    ELSE
    LET D == num_districts[state]
        acc == RowLoop([YearPass(year, "rows", "none", 0) EXCEPT
                          !.vote_share = VoteShareZeros(D)],
                       MajorPartyCandidates(year, state), 1)
    IN  IF acc.err # "none" THEN acc
        ELSE IF ActualMargin(acc.dem_votes, acc.rep_votes).err # "none"
        THEN [acc EXCEPT !.stage = "margin", !.line = 156,
                         !.err = ActualMargin(acc.dem_votes, acc.rep_votes).err]
        ELSE
        LET actual_margin == ActualMargin(acc.dem_votes, acc.rep_votes).value
            margins == ExtrapolatedMargin(acc.vote_share, actual_margin, D)
            dem_seats == DemSeats(acc.vote_share)
            seats == BiasScan(margins, 0)
            done == [acc EXCEPT !.actual_margin = actual_margin,
                                !.extrapolated_margin = margins]
        IN  IF dem_seats = 0
            THEN [done EXCEPT !.stage = "seats", !.err = "KeyError", !.line = 165]
            ELSE [done EXCEPT !.stage = "drawn",
                              !.dem_seats = dem_seats,
                              !.percent_seats_won = PercentSeatsWon(D),
                              !.seats = seats,
                              !.partisan_bias = PartisanBias(seats, D)]

\* lines 129-198: the passes made, the failing one (if any) last
RECURSIVE YearLoop(_, _)
YearLoop(state, i) ==
    IF i > Len(years) THEN <<>>
    ELSE LET pass == YearComputation(years[i], state)
         IN  IF pass.err # "none" THEN <<pass>>
             ELSE <<pass>> \o YearLoop(state, i + 1)

\* ------------------------------------------------- draw: the whole call
\* mutant: the given values are written into the class attribute
DrawDefaultParametersAliased(default_parameters) ==
    LET merged == [i \in 1 .. Len(default_parameters) |->
                     IF default_parameters[i] = None THEN default_draw_values[i]
                     ELSE default_parameters[i]]
    IN  [params |-> merged, defaults |-> merged]

\* __draw_default_parameters: the list it returns, and the class attribute
\* default_draw_values as the call leaves it
DrawDefaultParameters(default_parameters) ==
    [params |-> [i \in 1 .. Len(default_parameters) |->
                   IF default_parameters[i] = None THEN default_draw_values[i]
                   ELSE default_parameters[i]],
     defaults |-> default_draw_values]

\* np.linspace(0, 1, num): num evenly spaced values, written as fractions
Linspace(num) == [i \in 1 .. num |-> <<i - 1, num - 1>>]

\* lines 109-127: the figure, the axes, the grid and the two reference lines
ChartSetup(p) ==
    << [cmd |-> "subplots", figsize |-> FigSize],
       [cmd |-> "set_xlabel"],
       [cmd |-> "set_ylabel"],
       [cmd |-> "set_yticks", ticks |-> Linspace(p[6].v)],
       [cmd |-> "grid", color |-> p[1].v, linestyle |-> p[3].v, linewidth |-> p[4].v],
       [cmd |-> "plot", x |-> <<0 - Unit, Unit>>, y |-> <<Half, Half>>],
       [cmd |-> "plot", x |-> <<0, 0>>, y |-> <<0, Unit>>] >>

\* lines 184-198 for a completed pass
ChartYear(pass, p, D) ==
    << [cmd |-> "step", x |-> pass.extrapolated_margin, y |-> pass.percent_seats_won,
        alpha |-> p[5].v, color |-> colors[pass.year],
        label |-> <<pass.year, sign(BiasPercent(pass.partisan_bias))>>,
        where |-> "post"],
       [cmd |-> "scatter", x |-> pass.actual_margin, y |-> TrueDiv(pass.dem_seats, D),
        s |-> p[2].v, color |-> colors[pass.year]],
       [cmd |-> "legend"] >>

RECURSIVE ChartYears(_, _, _, _)
ChartYears(passes, i, p, state) ==
    IF i > Len(passes) \/ passes[i].stage # "drawn" THEN <<>>
    ELSE ChartYear(passes[i], p, num_districts[state])
            \o ChartYears(passes, i + 1, p, state)

\* mutant: the selection of the state's major-party rows replaces the table
TableFilteredInPlace(state) ==
    SelectSeq(house_data,
              LAMBDA r : /\ r.state_po = state
                         /\ (r.party = "republican" \/ r.party = "democrat"))

\* self.house_data as the year loop leaves it: the boolean-mask selection of
\* lines 133-137 builds a new frame and self.house_data is not assigned
TableAfterDraw(state) == house_data

\* draw(state, figsize, axescolor, ..., num_yticks)
Draw(state, given) ==
    LET resolved == DrawDefaultParameters(given)
        p == resolved.params
        passes == YearLoop(state, 1)
        failed == passes[Len(passes)].err # "none"
    IN  /\ default_draw_values' = resolved.defaults
        /\ house_data' = TableAfterDraw(state)
        /\ last' = [op |-> "draw", state |-> state, given |-> given, used |-> p,
                    status |-> IF failed THEN "error" ELSE "ok",
                    passes |-> passes,
                    chart |-> ChartSetup(p) \o ChartYears(passes, 1, p, state),
                    repeated |-> /\ last.op = "draw"
                                 /\ last.state = state
                                 /\ last.given = given,
                    after_explicit |-> /\ last.op = "draw"
                                       /\ last.given # NoOptions]
        /\ UNCHANGED <<columns, num_districts, years, colors>>

\* ---------------------------------------------------------- drop_columns
\* the names a dropped-columns file may hold: "writein" is no column
DropNames == {"office", "party", "totalvotes", "writein"}
DropFiles == { f \in SUBSET DropNames : Cardinality(f) \in 1 .. MaxDropped }

\* mutant: the columns found are removed before the missing one is reported
DropLabelsPartial(labels) ==
    IF labels \subseteq columns
    THEN [status |-> "ok", columns |-> columns \ labels]
    ELSE [status |-> "error", columns |-> columns \ labels]

\* DataFrame.drop(labels, axis=1, inplace=True): every label must be a column
DropLabels(labels) ==
    IF labels \subseteq columns
    THEN [status |-> "ok", columns |-> columns \ labels]
    ELSE [status |-> "error", columns |-> columns]

DropColumns(dropped_columns) ==
    LET dropped == DropLabels(dropped_columns)
    IN  /\ columns' = dropped.columns
        /\ last' = [op |-> "drop_columns", file |-> dropped_columns,
                    status |-> dropped.status]
        /\ UNCHANGED <<house_data, num_districts, years, colors, default_draw_values>>

\* ------------------------------------------------------- specifications
\* the tables of up to maxRows consecutive rows of the pool
Windows(maxRows) ==
    { Select(RowPool, a .. b, 1) :
        a \in 1 .. Len(RowPool), b \in 0 .. Len(RowPool) }
    \cap Tables(maxRows)

\* lines 43-49: the Nth color is the Nth year's
YearColors(ys) ==
    [y \in {ys[i] : i \in 1 .. Len(ys)} |->
        ColorPool[CHOOSE i \in 1 .. Len(ys) : ys[i] = y]]

Constructed(table, ys) ==
    /\ house_data = table
    /\ columns = TableColumns
    /\ num_districts = DistrictFile
    /\ years = ys
    /\ colors = YearColors(ys)
    /\ default_draw_values = PristineDefaults
    /\ last = [op |-> "init"]

\* a session: any calls of draw and drop_columns, in any order
Init == \E table \in Windows(MaxSessionRows), ys \in YearLists : Constructed(table, ys)

Next ==
    \/ \E state \in DrawStates, given \in OptionLists : Draw(state, given)
    \/ \E dropped_columns \in DropFiles : DropColumns(dropped_columns)

Spec == Init /\ [][Next]_vars

\* draw with the default options, over every table of up to MaxRows rows
InitDraw == \E table \in Tables(MaxRows), ys \in YearLists : Constructed(table, ys)

NextDraw == \E state \in DrawStates : Draw(state, NoOptions)

SpecDraw == InitDraw /\ [][NextDraw]_vars

\* --------------------------------------------------------------- claims
IsDraw == last.op = "draw"
Computed(pass) == pass.stage \in {"seats", "drawn"}
NonDecreasing(seq) == \A i \in 1 .. Len(seq) - 1 : seq[i] <= seq[i + 1]
DistrictCount == num_districts[last.state]

\* C1: a draw call that ends in an error has issued no drawing command: no
\* figure, axis configuration, reference line, step curve, marker or legend.
C1_FailedDrawNoOutput ==
    (IsDraw /\ last.status = "error") => last.chart = <<>>

\* C2: for every year whose margins draw has computed, the sorted
\* extrapolated-margin sequence has D + 2 entries, is non-decreasing, lies in
\* [-1, 1], starts at -1 and ends at +1, and is the x of the year's step curve.
C2_SortedMargins ==
    IsDraw =>
        \A i \in 1 .. Len(last.passes) :
            LET pass == last.passes[i]
                m == pass.extrapolated_margin
            IN  Computed(pass) =>
                  /\ Len(m) = DistrictCount + 2
                  /\ NonDecreasing(m)
                  /\ \A j \in 1 .. Len(m) : 0 - Unit <= m[j] /\ m[j] <= Unit
                  /\ m[1] = 0 - Unit
                  /\ m[Len(m)] = Unit
                  /\ pass.stage = "drawn" => last.chart[7 + 3 * i - 2].x = m

\* a drawn year of a two-district state with a margin strictly inside (-1, 1)
C2_Witness ==
    /\ IsDraw /\ last.status = "ok" /\ last.state = "CA"
    /\ \E i \in 1 .. Len(last.passes) :
          \E j \in 1 .. Len(last.passes[i].extrapolated_margin) :
              LET x == last.passes[i].extrapolated_margin[j]
              IN  0 - Unit < x /\ x < Unit

\* C3: the seat shares of a drawn year are 0/D, 1/D, ..., D/D, D/D: D + 2
\* entries, as many as the sorted margins, non-decreasing, each in [0, 1], and
\* they are the y of the year's step curve.
C3_SeatShares ==
    IsDraw =>
        \A i \in 1 .. Len(last.passes) :
            LET pass == last.passes[i]
                y == pass.percent_seats_won
                D == DistrictCount
            IN  pass.stage = "drawn" =>
                  /\ Len(y) = D + 2
                  /\ Len(y) = Len(pass.extrapolated_margin)
                  /\ \A j \in 1 .. D + 1 : y[j] = TrueDiv(j - 1, D)
                  /\ y[D + 2] = Unit
                  /\ NonDecreasing(y)
                  /\ \A j \in 1 .. Len(y) : 0 <= y[j] /\ y[j] <= Unit
                  /\ last.chart[7 + 3 * i - 2].y = y

C3_Witness ==
    /\ IsDraw /\ last.status = "ok" /\ last.state = "CA"
    /\ Len(last.passes) = 2
    /\ last.passes[2].percent_seats_won = <<0, Half, Unit, Unit>>

\* C4: a draw call uses the pristine default for every option left unset and
\* the given value for every option given, whatever earlier calls were given,
\* and no call changes default_draw_values.
C4_DefaultsIsolated ==
    /\ default_draw_values = PristineDefaults
    /\ IsDraw =>
          /\ \A i \in 1 .. 6 :
                last.used[i] = IF last.given[i] = None THEN PristineDefaults[i]
                               ELSE last.given[i]
          /\ \E c \in {last.chart[j] : j \in 1 .. Len(last.chart)} :
                /\ c.cmd = "grid"
                /\ c.color = last.used[1].v
                /\ c.linestyle = last.used[3].v
                /\ c.linewidth = last.used[4].v
          /\ \A j \in 1 .. Len(last.chart) :
                /\ last.chart[j].cmd = "scatter" => last.chart[j].s = last.used[2].v
                /\ last.chart[j].cmd = "step" => last.chart[j].alpha = last.used[5].v
                /\ last.chart[j].cmd = "set_yticks"
                      => Len(last.chart[j].ticks) = last.used[6].v

\* a call with no options right after a call with explicit options, drawn
\* with marker size 200
C4_Witness ==
    /\ IsDraw /\ last.after_explicit /\ last.given = NoOptions
    /\ last.status = "ok"
    /\ \E j \in 1 .. Len(last.chart) :
          last.chart[j].cmd = "scatter" /\ last.chart[j].s = 200

\* C5: draw leaves the results table and the three configuration series
\* unchanged, and a draw call that repeats the previous call's state and
\* options has the same outcome and the same per-year series.
C5_DrawIsPure ==
    [][ last'.op = "draw" =>
          /\ UNCHANGED <<house_data, columns, num_districts, years, colors>>
          /\ last'.repeated =>
                /\ last'.status = last.status
                /\ last'.passes = last.passes ]_vars

C5_Witness ==
    /\ IsDraw /\ last.repeated /\ last.status = "ok" /\ Len(last.passes) = 2

\* C6: drop_columns removes exactly the named columns when all of them are
\* columns of the table, and otherwise fails and removes none; the rows and the
\* three configuration series are unchanged either way.
C6_DropColumns ==
    [][ last'.op = "drop_columns" =>
          /\ IF last'.file \subseteq columns
             THEN last'.status = "ok" /\ columns' = columns \ last'.file
             ELSE last'.status = "error" /\ columns' = columns
          /\ UNCHANGED <<house_data, num_districts, years, colors>> ]_vars

\* a file naming a column an earlier call removed and one still there: the
\* call failed and the other column is still there
C6_Witness ==
    /\ last.op = "drop_columns" /\ last.status = "error"
    /\ last.file \subseteq TableColumns
    /\ last.file \cap columns # {}

\* the two-party votes of the rows of a year and state, summed row by row
RECURSIVE SumVotes(_, _)
SumVotes(rows, i) ==
    IF i > Len(rows) THEN 0 ELSE rows[i].candidatevotes + SumVotes(rows, i + 1)

\* C7: a year whose matching major-party rows hold no votes makes draw fail
\* at that year, with no step curve or marker for it; when the votes are not
\* zero the actual margin is (dem - rep) / (dem + rep) and lies in [-1, 1].
C7_ZeroVotes ==
    IsDraw =>
        \A i \in 1 .. Len(last.passes) :
            LET pass == last.passes[i]
                rows == MajorPartyCandidates(pass.year, last.state)
            IN  /\ SumVotes(rows, 1) = 0 =>
                      /\ pass.err # "none"
                      /\ i = Len(last.passes) /\ last.status = "error"
                      /\ Len(last.chart) = 7 + 3 * (i - 1)
                /\ Computed(pass) =>
                      /\ pass.dem_votes + pass.rep_votes = SumVotes(rows, 1)
                      /\ pass.dem_votes + pass.rep_votes > 0
                      /\ pass.actual_margin =
                            TrueDiv(pass.dem_votes - pass.rep_votes,
                                    pass.dem_votes + pass.rep_votes)
                      /\ 0 - Unit <= pass.actual_margin
                      /\ pass.actual_margin <= Unit

\* the second year has matching rows, all with zero votes, and the call
\* failed on the division, after the first year was drawn
C7_Witness ==
    /\ IsDraw /\ last.status = "error" /\ Len(last.passes) = 2
    /\ last.passes[2].stage = "margin"
    /\ MajorPartyCandidates(last.passes[2].year, last.state) # <<>>

\* the share a (district, party) cell accumulates, row by row
RECURSIVE CellShare(_, _, _, _)
CellShare(rows, i, d, p) ==
    IF i = 0 THEN 0
    ELSE IF rows[i].district = d /\ rows[i].party = p
    THEN FAdd(CellShare(rows, i - 1, d, p),
              TrueDiv(rows[i].candidatevotes, rows[i].totalvotes))
    ELSE CellShare(rows, i - 1, d, p)

RECURSIVE CountWins(_, _)
CountWins(rows, d) ==
    IF d = 0 THEN 0
    ELSE CountWins(rows, d - 1)
         + (IF CellShare(rows, Len(rows), d, "democrat")
                 >= CellShare(rows, Len(rows), d, "republican") THEN 1 ELSE 0)

\* C8: dem_seats is the number of districts 1..D whose accumulated democratic
\* share is >= the republican one (ties and districts without rows included);
\* the year fails at the seat count exactly when that number is 0, and
\* otherwise the marker's y is dem_seats / D, in (0, 1].
C8_DemSeats ==
    IsDraw =>
        \A i \in 1 .. Len(last.passes) :
            LET pass == last.passes[i]
                rows == MajorPartyCandidates(pass.year, last.state)
                wins == CountWins(rows, DistrictCount)
            IN  Computed(pass) =>
                  /\ (pass.stage = "seats") <=> (wins = 0)
                  /\ pass.stage = "drawn" =>
                        /\ pass.dem_seats = wins
                        /\ last.chart[7 + 3 * i - 1].cmd = "scatter"
                        /\ last.chart[7 + 3 * i - 1].y = TrueDiv(wins, DistrictCount)
                        /\ 0 < last.chart[7 + 3 * i - 1].y
                        /\ last.chart[7 + 3 * i - 1].y <= Unit

\* a drawn year with a district tied at a non-zero share and counted
C8_Witness ==
    /\ IsDraw /\ last.status = "ok"
    /\ \E i \in 1 .. Len(last.passes) :
          \E d \in DOMAIN last.passes[i].vote_share :
              /\ last.passes[i].vote_share[d].democrat > 0
              /\ last.passes[i].vote_share[d].democrat
                    = last.passes[i].vote_share[d].republican
              /\ last.passes[i].dem_seats = 1

\* C9: the partisan bias of a drawn year is (k - 1)/D - 0.5 for k the smallest
\* 0-based index of the sorted margins with margin >= 0; 1 <= k <= D + 1 and
\* the bias lies in [-0.5, 0.5].
C9_PartisanBias ==
    IsDraw =>
        \A i \in 1 .. Len(last.passes) :
            LET pass == last.passes[i]
                m == pass.extrapolated_margin
                k == pass.seats
            IN  pass.stage = "drawn" =>
                  /\ 1 <= k /\ k <= DistrictCount + 1
                  /\ m[k + 1] >= 0
                  /\ \A j \in 0 .. k - 1 : m[j + 1] < 0
                  /\ pass.partisan_bias = FSub(TrueDiv(k - 1, DistrictCount), Half)
                  /\ 0 - Half <= pass.partisan_bias
                  /\ pass.partisan_bias <= Half
                  /\ last.chart[7 + 3 * i - 2].label
                        = <<pass.year, sign(BiasPercent(pass.partisan_bias))>>

\* a drawn year whose first margin >= 0 is a tie at exactly 0, followed by
\* another 0
C9_Witness ==
    /\ IsDraw /\ last.status = "ok"
    /\ \E i \in 1 .. Len(last.passes) :
          LET pass == last.passes[i]
          IN  /\ pass.extrapolated_margin[pass.seats + 1] = 0
              /\ pass.extrapolated_margin[pass.seats + 2] = 0

\* the right-continuous step function through (x[i], y[i]) at the point a:
\* the y of the last x that is <= a
StepAt(x, y, a) ==
    y[CHOOSE i \in 1 .. Len(x) :
        /\ x[i] <= a
        /\ \A j \in 1 .. Len(x) : x[j] <= a => j <= i]

\* C10: the marker of a drawn year with -1 < actual_margin < 1 lies on the
\* year's step curve: the curve's value at actual_margin is dem_seats / D.
C10_MarkerOnCurve ==
    IsDraw =>
        \A i \in 1 .. Len(last.passes) :
            LET pass == last.passes[i]
                step == last.chart[7 + 3 * i - 2]
                marker == last.chart[7 + 3 * i - 1]
            IN  (/\ pass.stage = "drawn"
                 /\ 0 - Unit < pass.actual_margin
                 /\ pass.actual_margin < Unit)
                => StepAt(step.x, step.y, marker.x) = marker.y

====
